---------------------------- MODULE Spec2Model ----------------------------
(***************************************************************************)
(* The homepage query of the blog (src/pages/index.astro):                 *)
(*                                                                         *)
(*   const blog = (await getCollection("blog"))                            *)
(*     .filter((post) => !post.data.draft)                                 *)
(*     .sort((a, b) => b.data.date.valueOf() - a.data.date.valueOf())      *)
(*     .slice(0, SITE.NUM_POSTS_ON_HOMEPAGE);                              *)
(*                                                                         *)
(* Arrays are objects: the model keeps them in a heap and every array      *)
(* method returns a reference.  filter and slice allocate a new array,     *)
(* sort reorders the array it is called on and returns the same reference. *)
(* An entry is [id, date, draft]: id is the position of its source in the  *)
(* loaded collection, date is date.valueOf() counted in days, and draft is *)
(* "true", "false" or "absent" (the frontmatter field is optional).        *)
(***************************************************************************)
EXTENDS Integers, Sequences, FiniteSets

\* Bounds of the model.
MaxEntries == 4
MaxDate == 3

\* SITE.NUM_POSTS_ON_HOMEPAGE
NUM_POSTS_ON_HOMEPAGE == 3

VARIABLES pc, heap, collection, blog, loaded

vars == <<pc, heap, collection, blog, loaded>>

DraftValues == {"true", "false", "absent"}

Entry(i, d, v) == [id |-> i, date |-> d, draft |-> v]

\* A collection of n entries in load order: entry i has date f[i][1] and draft
\* field f[i][2].
Collection(n, f) == [i \in 1..n |-> Entry(i, f[i][1], f[i][2])]

\* Five entries dated Jan 1 to Jan 5.
ExampleDates == <<1, 2, 3, 4, 5>>

Permutations(n) == {q \in [1..n -> 1..n] : \A i, j \in 1..n : i # j => q[i] # q[j]}

\* JavaScript truthiness of post.data.draft (undefined is falsy).
Truthy(v) == v = "true"

\* (post) => post.data.draft : the predicate with its negation lost.
draftPredicate(post) == Truthy(post.draft)

\* (post) => !post.data.draft
notDraft(post) == ~Truthy(post.draft)

\* (a, b) => a.data.date.valueOf() - b.data.date.valueOf() : ascending.
ascendingComparator(a, b) == a.date - b.date

\* (a, b) => b.data.date.valueOf() - a.data.date.valueOf()
comparator(a, b) == b.date - a.date

RECURSIVE InsertUnstable(_, _)
\* An insertion that also moves the element past its equals.
InsertUnstable(s, x) ==
    IF s = <<>> THEN <<x>>
    ELSE IF comparator(s[Len(s)], x) >= 0
         THEN Append(InsertUnstable(SubSeq(s, 1, Len(s) - 1), x), s[Len(s)])
         ELSE Append(s, x)

RECURSIVE Insert(_, _)
\* Array.prototype.sort is a stable sort: an element moves left only past the
\* elements the comparator orders strictly after it.
Insert(s, x) ==
    IF s = <<>> THEN <<x>>
    ELSE IF comparator(s[Len(s)], x) > 0
         THEN Append(Insert(SubSeq(s, 1, Len(s) - 1), x), s[Len(s)])
         ELSE Append(s, x)

RECURSIVE SortArray(_)
SortArray(arr) ==
    IF arr = <<>> THEN <<>>
    ELSE Insert(SortArray(SubSeq(arr, 1, Len(arr) - 1)), arr[Len(arr)])

Min(a, b) == IF a < b THEN a ELSE b
Max(a, b) == IF a > b THEN a ELSE b

\* Array.prototype.slice's relative index: negative counts from the end, and
\* the result is clamped to 0..length.
RelativeIndex(len, k) == IF k < 0 THEN Max(len + k, 0) ELSE Min(k, len)

\* A slice that yields nothing when end is past the length of the array.
SliceArrayStrict(arr, start, end) ==
    IF end > Len(arr) THEN <<>>
    ELSE SubSeq(arr, RelativeIndex(Len(arr), start) + 1, RelativeIndex(Len(arr), end))

SliceArray(arr, start, end) ==
    SubSeq(arr, RelativeIndex(Len(arr), start) + 1, RelativeIndex(Len(arr), end))

\* The array methods on the heap: each yields the new heap and the reference
\* it returns.
getCollection(h, c) == [heap |-> Append(h, c), ref |-> Len(h) + 1]

\* A filter that removes the rejected elements from the array it is called on.
filterInPlace(h, r) == [heap |-> [h EXCEPT ![r] = SelectSeq(h[r], notDraft)], ref |-> r]

filter(h, r) == [heap |-> Append(h, SelectSeq(h[r], notDraft)), ref |-> Len(h) + 1]

sort(h, r) == [heap |-> [h EXCEPT ![r] = SortArray(h[r])], ref |-> r]

slice(h, r, start, end) ==
    [heap |-> Append(h, SliceArray(h[r], start, end)), ref |-> Len(h) + 1]

Init ==
    /\ pc = "start"
    /\ heap = <<>>
    /\ collection = 0
    /\ blog = 0
    /\ loaded = <<>>

\* await getCollection("blog") resolves with the entries c of the collection.
GetCollection(c) ==
    /\ LET res == getCollection(heap, c) IN
          /\ heap' = res.heap
          /\ collection' = res.ref
          /\ blog' = res.ref
    /\ loaded' = c
    /\ pc' = "loaded"

\* Any collection of up to MaxEntries entries dated 1..MaxDate.
LoadAny ==
    /\ pc = "start"
    /\ \E n \in 0..MaxEntries : \E f \in [1..n -> (1..MaxDate) \X DraftValues] :
          GetCollection(Collection(n, f))

\* The entries dated Jan 1 to Jan 5, loaded in any order, with any draft field.
LoadExample ==
    /\ pc = "start"
    /\ \E p \in Permutations(Len(ExampleDates)) :
          \E v \in [1..Len(ExampleDates) -> DraftValues] :
             GetCollection(Collection(Len(ExampleDates),
                 [i \in 1..Len(ExampleDates) |-> <<ExampleDates[p[i]], v[i]>>]))

Filter ==
    /\ pc = "loaded"
    /\ LET res == filter(heap, blog) IN
          /\ heap' = res.heap
          /\ blog' = res.ref
    /\ pc' = "filtered"
    /\ UNCHANGED <<collection, loaded>>

Sort ==
    /\ pc = "filtered"
    /\ LET res == sort(heap, blog) IN
          /\ heap' = res.heap
          /\ blog' = res.ref
    /\ pc' = "sorted"
    /\ UNCHANGED <<collection, loaded>>

Slice ==
    /\ pc = "sorted"
    /\ LET res == slice(heap, blog, 0, NUM_POSTS_ON_HOMEPAGE) IN
          /\ heap' = res.heap
          /\ blog' = res.ref
    /\ pc' = "done"
    /\ UNCHANGED <<collection, loaded>>

Next == LoadAny \/ LoadExample \/ Filter \/ Sort \/ Slice

Spec == Init /\ [][Next]_vars

(***************************************************************************)
(* Properties of the homepage query.                                       *)
(***************************************************************************)

\* The homepage listing view.
View == heap[blog]

\* The positions of the loaded collection that hold a non-draft entry.
Public == {j \in 1..Len(loaded) : loaded[j].draft # "true"}

Listed(e) == \E i \in 1..Len(View) : View[i] = e

\* The position of entry e in the loaded collection.
LoadIndex(e) == CHOOSE j \in 1..Len(loaded) : loaded[j] = e

\* a comes before b in a listing: most recent first, and of two entries with
\* the same date the one loaded first.
Before(a, b) ==
    \/ a.date > b.date
    \/ a.date = b.date /\ LoadIndex(a) < LoadIndex(b)

\* C1: once the query is done, the homepage view is exactly the first
\* min(NUM_POSTS_ON_HOMEPAGE, k) of the k non-draft entries of the loaded
\* collection in date-descending order (entries of one date in load order):
\* it has that length, holds only non-draft entries, is in that order, and
\* every non-draft entry left out comes after every entry listed.  For five
\* non-draft entries dated Jan 1 to Jan 5 it is Jan 5, Jan 4, Jan 3.
HomepageListsLatest ==
    pc = "done" =>
        /\ Len(View) = Min(NUM_POSTS_ON_HOMEPAGE, Cardinality(Public))
        /\ \A i \in 1..Len(View) : \E j \in Public : View[i] = loaded[j]
        /\ \A i, j \in 1..Len(View) : i < j => Before(View[i], View[j])
        /\ \A j \in Public :
              ~Listed(loaded[j]) => \A i \in 1..Len(View) : Before(View[i], loaded[j])
        /\ (/\ Len(loaded) = Len(ExampleDates)
            /\ Cardinality(Public) = Len(loaded)
            /\ {loaded[j].date : j \in 1..Len(loaded)} = {ExampleDates[j] : j \in 1..Len(ExampleDates)})
           => [i \in 1..Len(View) |-> View[i].date] = <<5, 4, 3>>

\* Five non-draft entries dated Jan 1 to Jan 5, the oldest loaded first and
\* the most recent loaded third, listed as Jan 5, Jan 4, Jan 3.
HomepageListsLatestWitness ==
    /\ pc = "done"
    /\ Len(loaded) = 5
    /\ Cardinality(Public) = 5
    /\ loaded[1].date = 1
    /\ loaded[3].date = 5
    /\ [i \in 1..Len(View) |-> View[i].date] = <<5, 4, 3>>

\* C2: an entry with draft: true is in no view from the filter on, whatever
\* its date; an entry without a draft field passes the filter like one with
\* draft: false, and is on the homepage unless NUM_POSTS_ON_HOMEPAGE entries
\* that come before it fill the view.
DraftsNeverListed ==
    pc \in {"filtered", "sorted", "done"} =>
        /\ \A i \in 1..Len(View) : View[i].draft # "true"
        /\ \A j \in 1..Len(loaded) :
              (loaded[j].draft = "absent" /\ ~Listed(loaded[j])) =>
                  /\ pc = "done"
                  /\ Len(View) = NUM_POSTS_ON_HOMEPAGE
                  /\ \A i \in 1..Len(View) : Before(View[i], loaded[j])

\* A draft dated after every other entry is left out, and an entry without a
\* draft field is listed.
DraftsNeverListedWitness ==
    /\ pc = "done"
    /\ \E d \in 1..Len(loaded) :
          /\ loaded[d].draft = "true"
          /\ \A j \in 1..Len(loaded) : j # d => loaded[j].date < loaded[d].date
    /\ \E i \in 1..Len(View) : View[i].draft = "absent"

\* C3: the sort is stable: in the sorted array, and so in the homepage view,
\* two entries with the same date are in the order in which they were loaded.
SortIsStable ==
    pc \in {"sorted", "done"} =>
        \A i, j \in 1..Len(View) :
            (i < j /\ View[i].date = View[j].date) =>
                LoadIndex(View[i]) < LoadIndex(View[j])

\* Two entries of one date were both moved ahead of an older entry that was
\* loaded before them.
SortIsStableWitness ==
    /\ pc = "sorted"
    /\ \E i, j \in 1..Len(View) :
          /\ i < j
          /\ View[i].date = View[j].date
          /\ \E k \in 1..Len(View) :
                /\ j < k
                /\ LoadIndex(View[k]) < LoadIndex(View[i])

\* C4: slice(0, NUM_POSTS_ON_HOMEPAGE) of a sorted array shorter than
\* NUM_POSTS_ON_HOMEPAGE yields the whole array, same entries in the same
\* order, so that every non-draft entry of the collection is listed.
TakeBeyondLengthIsWhole ==
    [][(pc = "sorted" /\ NUM_POSTS_ON_HOMEPAGE > Len(heap[blog])) =>
          /\ pc' = "done"
          /\ heap'[blog'] = heap[blog]
          /\ \A j \in Public : \E i \in 1..Len(heap'[blog']) : heap'[blog'][i] = loaded[j]]_vars

\* Fewer non-draft entries than NUM_POSTS_ON_HOMEPAGE, and at least one: the
\* view lists them all.
TakeBeyondLengthIsWholeWitness ==
    /\ pc = "done"
    /\ Cardinality(Public) \in 1..(NUM_POSTS_ON_HOMEPAGE - 1)
    /\ Len(View) = Cardinality(Public)
    /\ Len(loaded) > Len(View)

\* C5: the array getCollection returned holds, at every step of the query,
\* the entries it was loaded with, in load order, each unchanged.
CollectionNeverMutated ==
    pc # "start" => heap[collection] = loaded

\* The query dropped a draft and reordered two entries, and the collection is
\* still as loaded.
CollectionNeverMutatedWitness ==
    /\ pc = "done"
    /\ Cardinality(Public) < Len(loaded)
    /\ \E i, j \in Public : i < j /\ loaded[i].date < loaded[j].date
    /\ View # heap[collection]

=============================================================================
